---- MODULE Spec2Model ----
(***************************************************************************)
(* Notion plugin for Connery: fetching the block tree of a Notion page,    *)
(* rendering every block to one line of text and assembling the document.  *)
(*                                                                         *)
(* Strings are TLA+ strings; a JavaScript object is a record whose DOMAIN  *)
(* is the set of properties it has, so a missing property is a field that  *)
(* is not in the DOMAIN.  A JavaScript call that may throw yields a record *)
(* [ok, v]: the value when ok, the message of the thrown Error otherwise.  *)
(***************************************************************************)
EXTENDS Integers, Sequences, FiniteSets, TLC

\* ------------------------------------------------------------------ bounds
MaxBlocks == 4        \* blocks of a page in the tree scenarios
PageSize == 2         \* blocks the store returns per listing page
MaxLead == 1          \* paragraphs before the sample block of a flat page
MaxPairBlocks == 3    \* blocks of a page in the scenarios of two requests

\* ------------------------------------------------------- JavaScript values
Ok(v) == [ok |-> TRUE, v |-> v]
Throw(m) == [ok |-> FALSE, v |-> m]

Has(obj, f) == f \in DOMAIN obj

\* `'' + obj.f`: a missing property reads as undefined, which string
\* concatenation turns into the text "undefined".
StrOf(obj, f) == IF Has(obj, f) THEN obj[f] ELSE "undefined"

CannotRead(f) == "Cannot read properties of undefined (reading '" \o f \o "')"

\* Array.prototype.join: the elements separated by sep.
RECURSIVE Join(_, _)
Join(strs, sep) ==
  IF Len(strs) = 0 THEN ""
  ELSE IF Len(strs) = 1 THEN strs[1]
  ELSE strs[1] \o sep \o Join(Tail(strs), sep)

CharAt(s, k) == SubSeq(s, k, k)

\* String.prototype.split for a separator of one character: the texts
\* between consecutive separators.
Split(s, sep) ==
  LET at == {k \in 1..Len(s) : CharAt(s, k) = sep}
      n == Cardinality(at)
      Pos(i) == IF i = 0 THEN 0
                ELSE IF i = n + 1 THEN Len(s) + 1
                ELSE CHOOSE k \in at : Cardinality({j \in at : j < k}) = i - 1
  IN  [i \in 1..(n + 1) |-> SubSeq(s, Pos(i - 1) + 1, Pos(i) - 1)]

\* ---------------------------------------------------------------- renderer
\* richText.map((t) => t.plain_text).join(''): join renders an undefined
\* element as the empty string.
getPlainTextFromRichText(richText) ==
  Join([i \in 1..Len(richText) |->
          IF Has(richText[i], "plain_text") THEN richText[i].plain_text ELSE ""],
       "")

MediaTypes == {"embed", "video", "file", "image", "pdf"}

\* The type tags the switch of getTextFromBlock has a case for.
TableTypes ==
  {"unsupported", "bookmark", "child_database", "child_page", "equation",
   "link_preview", "synced_block", "table", "table_of_contents",
   "breadcrumb", "column_list", "divider"} \cup MediaTypes

\* block.type as a property key and as text: a partial block has no type.
TypeOf(block) == StrOf(block, "type")

\* block.has_children as a condition.
HasChildrenFlag(block) == Has(block, "has_children") /\ block.has_children

getMediaSourceText(block) ==
  IF ~Has(block, TypeOf(block)) THEN Throw(CannotRead("external"))
  ELSE
    LET p == block[TypeOf(block)]
        source ==
          IF Has(p, "external") THEN StrOf(p.external, "url")
          ELSE IF Has(p, "file") THEN StrOf(p.file, "url")
          ELSE IF Has(p, "url") /\ p.url # "" THEN p.url
          ELSE "[Missing case for media block types]: " \o TypeOf(block)
    IN  IF ~Has(p, "caption") THEN Throw(CannotRead("length"))
        ELSE IF Len(p.caption) # 0
             THEN Ok(getPlainTextFromRichText(p.caption) \o ": " \o source)
             ELSE Ok(source)

\* block.<type>.<f> of the single-field cases.
Field(block, f) ==
  IF ~Has(block, block.type) THEN Throw(CannotRead(f))
  ELSE Ok(StrOf(block[block.type], f))

SyncedText(block, legacy) ==
  IF ~Has(block, "synced_block") THEN Throw(CannotRead("synced_from"))
  ELSE IF Has(block.synced_block, "synced_from")
       THEN Ok("This block is synced with a block with the following ID: "
               \o StrOf(block.synced_block.synced_from,
                        StrOf(block.synced_block.synced_from, "type")))
       ELSE IF legacy
            THEN Ok("Source sync block that another blocked is synced with.")
            ELSE Ok("Source sync block that another block is synced with.")

\* The switch on block.type.
DispatchText(block, legacy) ==
  LET type == TypeOf(block) IN
  CASE type = "unsupported" -> Ok("[Unsupported block type]")
    [] type = "bookmark" -> Field(block, "url")
    [] type \in {"child_database", "child_page"} -> Field(block, "title")
    [] type \in MediaTypes -> getMediaSourceText(block)
    [] type = "equation" -> Field(block, "expression")
    [] type = "link_preview" -> Field(block, "url")
    [] type = "synced_block" -> SyncedText(block, legacy)
    [] type = "table" ->
         IF ~Has(block, "table") THEN Throw(CannotRead("table_width"))
         ELSE Ok("Table width: " \o
                 (IF Has(block.table, "table_width")
                  THEN ToString(block.table.table_width) ELSE "undefined"))
    [] type = "table_of_contents" ->
         IF ~Has(block, "table_of_contents") THEN Throw(CannotRead("color"))
         ELSE Ok("ToC color: " \o StrOf(block.table_of_contents, "color"))
    [] type \in {"breadcrumb", "column_list", "divider"} -> Ok("No text available")
    [] OTHER -> Ok("[Needs case added]")

\* Mutant: the switch is consulted first for the types it has a case for.
RichTextAfterSwitch(block, legacy) ==
  IF Has(block, TypeOf(block))
  THEN Ok(Has(block[TypeOf(block)], "rich_text")
          /\ TypeOf(block) \notin TableTypes)
  ELSE IF legacy THEN Throw(CannotRead("rich_text"))
  ELSE Ok(FALSE)

\* `if (block[block.type]?.rich_text)`; the legacy renderer of index.ts reads
\* `block[block.type].rich_text`, which throws when the payload is missing.
RichTextTest(block, legacy) ==
  IF Has(block, TypeOf(block)) THEN Ok(Has(block[TypeOf(block)], "rich_text"))
  ELSE IF legacy THEN Throw(CannotRead("rich_text"))
  ELSE Ok(FALSE)

\* Mutant: the marker without its leading space.
MarkerNoSpace(block, text) ==
  IF HasChildrenFlag(block) THEN text \o "(Has children)" ELSE text

\* `if (block.has_children) text = text + ' (Has children)'`
Marker(block, text) ==
  IF HasChildrenFlag(block) THEN text \o " (Has children)" ELSE text

\* Mutant: the type and the text are separated by the colon alone.
TextFromBlockTight(block, legacy) ==
  LET test == RichTextTest(block, legacy)
      text == IF ~test.ok THEN test
              ELSE IF test.v
                   THEN Ok(getPlainTextFromRichText(block[TypeOf(block)].rich_text))
                   ELSE DispatchText(block, legacy)
  IN  IF ~text.ok THEN text
      ELSE Ok(TypeOf(block) \o ":" \o Marker(block, text.v))

\* getTextFromBlock; legacy selects the renderer of index.ts.
TextFromBlock(block, legacy) ==
  LET test == RichTextTest(block, legacy)
      text == IF ~test.ok THEN test
              ELSE IF test.v
                   THEN Ok(getPlainTextFromRichText(block[TypeOf(block)].rich_text))
                   ELSE DispatchText(block, legacy)
  IN  IF ~text.ok THEN text
      ELSE Ok(TypeOf(block) \o ": " \o Marker(block, text.v))

getTextFromBlock(block) == TextFromBlock(block, FALSE)

getTextFromBlockLegacy(block) == TextFromBlock(block, TRUE)

\* ------------------------------------------------------------- page URLs
HexChars == {"0", "1", "2", "3", "4", "5", "6", "7", "8", "9",
             "a", "b", "c", "d", "e", "f"}

\* [a-f0-9]{n} at position i of s.
HexRun(s, i, n) ==
  /\ i + n - 1 <= Len(s)
  /\ \A k \in i..(i + n - 1) : CharAt(s, k) \in HexChars

DashAt(s, k) == k <= Len(s) /\ CharAt(s, k) = "-"

\* The two alternatives of the regular expression, tried in this order.
PlainIdAt(s, i) == HexRun(s, i, 32)

DashedIdAt(s, i) ==
  /\ HexRun(s, i, 8) /\ DashAt(s, i + 8)
  /\ HexRun(s, i + 9, 4) /\ DashAt(s, i + 13)
  /\ HexRun(s, i + 14, 4) /\ DashAt(s, i + 18)
  /\ HexRun(s, i + 19, 4) /\ DashAt(s, i + 23)
  /\ HexRun(s, i + 24, 12)

\* The regular expression matches at position i of s.
MatchAt(s, i) == PlainIdAt(s, i) \/ DashedIdAt(s, i)

\* The positions of url where the regular expression matches.
Matches(url) == {i \in 1..Len(url) : MatchAt(url, i)}

\* url.match(regex) returns the leftmost match.
FirstMatch(url) ==
  CHOOSE i \in Matches(url) : \A j \in Matches(url) : i <= j

\* match[0]: the first alternative is tried first at the position.
MatchedText(url, i) ==
  IF PlainIdAt(url, i) THEN SubSeq(url, i, i + 31) ELSE SubSeq(url, i, i + 35)

\* Mutant: the dashes are kept.
RemoveDashesNone(s) == s

\* replace(/-/g, '')
RemoveDashes(s) == Join(Split(s, "-"), "")

\* The position and the matched text are bound through singleton sets, so
\* each is computed once.
extractPageIdFromUrl(url) ==
  IF Matches(url) = {}
  THEN Throw("Invalid Notion page URL")
  ELSE CHOOSE id \in {Ok(RemoveDashes(m)) :
                        m \in {MatchedText(url, i) : i \in {FirstMatch(url)}}} :
         TRUE

\* ------------------------------------------------------------ block store
PageId == "0123456789abcdef0123456789abcdef"

OtherId == "ffffffffffffffffffffffffffffffff"

Bid(i) == "b" \o ToString(i)

Block(id, type, hc, payload) ==
  (type :> payload) @@
  [object |-> "block", id |-> id, type |-> type, has_children |-> hc]

\* A block whose payload field is missing.
BareBlock(id, type, hc) ==
  [object |-> "block", id |-> id, type |-> type, has_children |-> hc]

\* A partial block response: neither type nor has_children.
PartialBlock(id) == [object |-> "block", id |-> id]

Span(text) == [plain_text |-> text]

Letter(i) == CharAt("ABCDEFGHIJ", i)

Paragraph(i, hc) ==
  Block(Bid(i), "paragraph", hc, [rich_text |-> <<Span(Letter(i))>>])

\* The increasing sequence of the numbers of 1..n that satisfy Test.
Pick(n, Test(_)) == SelectSeq([i \in 1..n |-> i], Test)

\* A page of n paragraphs: block i is a child of parent[i] (0 is the page),
\* the children of a node are ordered by number, hc[i] is the has_children
\* flag the store reports for block i.
TreeStore(n, parent, hc) ==
  LET NodeId(k) == IF k = 0 THEN PageId ELSE Bid(k)
      Kids(k) == Pick(n, LAMBDA i : parent[i] = k)
  IN  [id \in {NodeId(k) : k \in 0..n} |->
         LET k == CHOOSE j \in 0..n : NodeId(j) = id
         IN  [c \in 1..Len(Kids(k)) |-> Paragraph(Kids(k)[c], hc[Kids(k)[c]])]]

TreeStores ==
  UNION {{TreeStore(n, parent, hc) :
            parent \in {f \in [1..n -> 0..n] : \A i \in 1..n : f[i] < i},
            hc \in [1..n -> BOOLEAN]} :
         n \in 0..MaxBlocks}

\* A payload object without any property the renderer reads ({} in the API).
EmptyPayload == [archived |-> FALSE]

\* Blocks of every rendering rule, well-formed and malformed.
SamplePayloads ==
  { <<"paragraph", [rich_text |-> <<Span("Hello, "), Span("world")>>]>>,
    <<"paragraph", [rich_text |-> <<>>]>>,
    <<"paragraph", [rich_text |-> <<Span("a\nb")>>]>>,
    <<"paragraph", [rich_text |-> <<Span("a"), [type |-> "mention"]>>]>>,
    <<"heading_1", [rich_text |-> <<Span("T")>>]>>,
    <<"bookmark", [rich_text |-> <<Span("r")>>, url |-> "u"]>>,
    <<"foo_bar", [rich_text |-> <<Span("x")>>]>>,
    <<"foo_bar", EmptyPayload>>,
    <<"x", [rich_text |-> <<Span("y")>>]>>,
    <<"x", [rich_text |-> <<Span("yz")>>]>>,
    <<"unsupported", EmptyPayload>>,
    <<"bookmark", [url |-> "https://e.x", caption |-> <<>>]>>,
    <<"bookmark", [caption |-> <<>>]>>,
    <<"child_database", [title |-> "DB"]>>,
    <<"child_page", [title |-> "Sub"]>>,
    <<"equation", [expression |-> "e=mc^2"]>>,
    <<"link_preview", [url |-> "https://l.p"]>>,
    <<"synced_block", EmptyPayload>>,
    <<"synced_block", [synced_from |-> [type |-> "block_id", block_id |-> "b7"]]>>,
    <<"table", [table_width |-> 3]>>,
    <<"table_of_contents", [color |-> "gray"]>>,
    <<"breadcrumb", EmptyPayload>>,
    <<"column_list", EmptyPayload>>,
    <<"divider", EmptyPayload>>,
    <<"image", [external |-> [url |-> "https://e/i"], caption |-> <<>>]>>,
    <<"image", [file |-> [url |-> "https://f/i"], caption |-> <<Span("cap")>>]>>,
    <<"image", [external |-> [url |-> "https://e/i"],
                file |-> [url |-> "https://f/i"], url |-> "https://u/i",
                caption |-> <<>>]>>,
    <<"image", [external |-> [url |-> "https://e/i"]]>>,
    <<"video", [file |-> [url |-> "https://f/v"], url |-> "https://u/v",
                caption |-> <<>>]>>,
    <<"embed", [url |-> "https://u/e", caption |-> <<Span("c1"), Span("c2")>>]>>,
    <<"embed", [url |-> "", caption |-> <<>>]>>,
    <<"file", [caption |-> <<>>]>>,
    <<"file", [caption |-> <<Span("cap")>>]>>,
    <<"file", EmptyPayload>>,
    <<"pdf", [external |-> [url |-> ""], caption |-> <<>>]>>,
    <<"pdf", [external |-> EmptyPayload, caption |-> <<>>]>> }

MalformedTypes == {"bookmark", "image", "table", "foo_bar", "synced_block"}

SampleBlocks(id) ==
  {Block(id, s[1], hc, s[2]) : s \in SamplePayloads, hc \in BOOLEAN}
  \cup {BareBlock(id, t, hc) : t \in MalformedTypes, hc \in BOOLEAN}
  \cup {PartialBlock(id)}

\* A page without nesting: lead paragraphs followed by one sample block.
FlatStore(lead, sample) ==
  [id \in {PageId} \cup {Bid(i) : i \in 1..(lead + 1)} |->
     IF id = PageId
     THEN [i \in 1..lead |-> Paragraph(i, FALSE)] \o <<sample>>
     ELSE <<>>]

FlatStores ==
  UNION {{FlatStore(lead, sample) : sample \in SampleBlocks(Bid(lead + 1))} :
         lead \in 0..MaxLead}

\* ---------------------------------------------------------------- requests
Handlers ==
  {"askNotionPage", "askPrivateNotionPage", "askMyPrivateNotionPage",
   "retrieveKnowledge"}

\* retrieveBlockChildren recurses into children in two of the handlers.
Recursive(h) == h \in {"askNotionPage", "askPrivateNotionPage"}

\* The handlers that check the length of the document.
Gated(h) == h \in {"askNotionPage", "askPrivateNotionPage"}

\* index.ts has the renderer without optional chaining.
Legacy(h) == h = "retrieveKnowledge"

PlainUrl == "https://www.notion.so/My-Page-" \o PageId \o "?pvs=4"

DashedUrl == "https://www.notion.so/01234567-89ab-cdef-0123-456789abcdef"

\* Page URLs: with the plain and the dashed id, without an id, with
\* uppercase digits, with one digit too many and one too few, with a last
\* group of 11 digits, and with the id of no page of the store in both forms.
Urls ==
  { PlainUrl, DashedUrl,
    "https://www.notion.so/My-Page",
    "https://www.notion.so/My-Page-0123456789ABCDEF0123456789ABCDEF",
    "https://www.notion.so/My-Page-" \o PageId \o "0",
    "https://www.notion.so/My-Page-0123456789abcdef0123456789abcde",
    "https://www.notion.so/01234567-89ab-cdef-0123-456789abcde",
    "https://www.notion.so/" \o OtherId,
    "https://www.notion.so/ffffffff-ffff-ffff-ffff-ffffffffffff?pvs=4" }

\* process.env.NOTION_PAGE_ID of index.ts
EnvPageId == PageId

Request(h, url) == [handler |-> h, notionPageUrl |-> url, question |-> "Q?"]

WithInstructions(input, text) == [instructions |-> text] @@ input

BasicInputs == {Request(h, PlainUrl) : h \in Handlers}

ContentInputs ==
  BasicInputs
  \cup {WithInstructions(Request("askNotionPage", PlainUrl), text) :
          text \in {"", "Be brief"}}

UrlInputs ==
  {Request(h, url) : h \in Handlers \ {"retrieveKnowledge"}, url \in Urls}

ABStore == TreeStore(2, <<0, 0>>, <<FALSE, FALSE>>)

\* A page whose store holds children under blocks that do not report them:
\* under the partial block b1 and under b2, whose has_children is false; b3
\* reports its child.
HiddenStore ==
  (PageId :> <<PartialBlock(Bid(1)), Paragraph(2, FALSE), Paragraph(3, TRUE)>>)
  @@ (Bid(1) :> <<Paragraph(4, FALSE)>>)
  @@ (Bid(2) :> <<Paragraph(5, FALSE)>>)
  @@ (Bid(3) :> <<Paragraph(6, FALSE)>>)
  @@ [id \in {Bid(4), Bid(5), Bid(6)} |-> <<>>]

\* One request r1 against every store of the families.
Single(s, i) == [store |-> s, input |-> ("r1" :> i)]

Scenarios ==
  {Single(s, i) : s \in TreeStores, i \in BasicInputs}
  \cup {Single(s, i) : s \in FlatStores, i \in ContentInputs}
  \cup {Single(ABStore, i) : i \in UrlInputs}
  \cup {Single(HiddenStore, i) : i \in BasicInputs}

\* Two requests against the same store: r1 with the recursive fetcher, r2
\* with a fetcher that lists the direct children only.
PairStores ==
  UNION {{TreeStore(n, parent, hc) :
            parent \in {f \in [1..n -> 0..n] : \A i \in 1..n : f[i] < i},
            hc \in [1..n -> BOOLEAN]} :
         n \in 0..MaxPairBlocks}

PairScenarios ==
  {[store |-> s,
    input |-> ("r1" :> Request("askPrivateNotionPage", PlainUrl))
              @@ ("r2" :> Request(h, PlainUrl))] :
     s \in PairStores, h \in {"askMyPrivateNotionPage", "retrieveKnowledge"}}

\* ------------------------------------------------------------------ state
VARIABLES
  store,        \* the upstream block store: block id -> its child blocks
  input,        \* input[r]: the input of request r
  pc,           \* pc[r]: where the handler of request r is
  stack,        \* stack[r]: the retrieveBlockChildren calls of r, innermost last
  inflight,     \* inflight[r]: the listing calls r has issued and not seen answered
  calls,        \* calls[r]: every listing call r has issued
  blocks,       \* blocks[r]: the blocks retrieveBlockChildren returned to the handler
  pageContent,  \* pageContent[r]: <<document>> once it is assembled
  result,       \* result[r]: what the handler returned or threw
  fault         \* fault[r]: the failure that occurred in r, "none" when none did

vars ==
  <<store, input, pc, stack, inflight, calls, blocks, pageContent, result, fault>>

Requests == DOMAIN pc

Pending == [kind |-> "pending"]
Returned(output) == [kind |-> "return", output |-> output]
Thrown(message) == [kind |-> "throw", message |-> message]

InitWith(scenarios) ==
  /\ store \in {sc.store : sc \in scenarios}
  /\ input \in {sc.input : sc \in {x \in scenarios : x.store = store}}
  /\ pc = [r \in DOMAIN input |-> "start"]
  /\ stack = [r \in DOMAIN input |-> <<>>]
  /\ inflight = [r \in DOMAIN input |-> {}]
  /\ calls = [r \in DOMAIN input |-> {}]
  /\ blocks = [r \in DOMAIN input |-> <<>>]
  /\ pageContent = [r \in DOMAIN input |-> <<>>]
  /\ result = [r \in DOMAIN input |-> Pending]
  /\ fault = [r \in DOMAIN input |-> "none"]

Init == InitWith(Scenarios)

PairInit == InitWith(PairScenarios)

\* ------------------------------------------------------- failure handling
\* The catch block of the handler.
Catch(h, message) ==
  CASE h \in {"askNotionPage", "askPrivateNotionPage"} ->
         Thrown("Error occurred: " \o message)
    [] h = "askMyPrivateNotionPage" ->
         Returned([answer |-> "Error occurred: " \o message])
    [] h = "retrieveKnowledge" ->
         Thrown("Failed to fetch and answer question: " \o message)

\* An exception reaches the catch block: every pending call of the request
\* is abandoned and the handler ends.
Fail(r, kind, message) ==
  /\ pc' = [pc EXCEPT ![r] = "done"]
  /\ stack' = [stack EXCEPT ![r] = <<>>]
  /\ inflight' = [inflight EXCEPT ![r] = {}]
  /\ result' = [result EXCEPT ![r] = Catch(input[r].handler, message)]
  /\ fault' = [fault EXCEPT ![r] = kind]

\* ----------------------------------------------------------------- fetcher
NoCursor == 0

NewFrame(id) ==
  [id |-> id, blocks |-> <<>>, buf |-> <<>>, cursor |-> NoCursor, loc |-> "call"]

Top(r) == stack[r][Len(stack[r])]

\* Mutant: the array of collected blocks is one array of the module, shared
\* by the calls of all requests.
SetTopShared(r, frame) ==
  [q \in DOMAIN stack |->
     IF q = r THEN [stack[r] EXCEPT ![Len(stack[r])] = frame]
     ELSE IF Len(stack[q]) > 0
          THEN [stack[q] EXCEPT ![Len(stack[q])].blocks = frame.blocks]
          ELSE stack[q]]

\* The innermost call of r continues with frame as its local state.
SetTop(r, frame) == [stack EXCEPT ![r][Len(stack[r])] = frame]

\* The handler starts: the page id, then the first retrieveBlockChildren.
Start(r) ==
  /\ pc[r] = "start"
  /\ \E id \in {IF input[r].handler = "retrieveKnowledge" THEN Ok(EnvPageId)
                ELSE extractPageIdFromUrl(input[r].notionPageUrl)} :
       IF id.ok
       THEN /\ pc' = [pc EXCEPT ![r] = "fetch"]
            /\ stack' = [stack EXCEPT ![r] = <<NewFrame(id.v)>>]
            /\ UNCHANGED <<inflight, result, fault>>
       ELSE Fail(r, "url", id.v)
  /\ UNCHANGED <<store, input, calls, blocks, pageContent>>

\* iteratePaginatedAPI calls notion.blocks.children.list with the cursor.
CallList(r) ==
  /\ pc[r] = "fetch"
  /\ Top(r).loc = "call"
  /\ LET call == [block_id |-> Top(r).id, start_cursor |-> Top(r).cursor] IN
       /\ inflight' = [inflight EXCEPT ![r] = @ \cup {call}]
       /\ calls' = [calls EXCEPT ![r] = @ \cup {call}]
  /\ stack' = SetTop(r, [Top(r) EXCEPT !.loc = "await"])
  /\ UNCHANGED <<store, input, pc, blocks, pageContent, result, fault>>

\* The store's answer to a listing call: a page and the cursor of the next.
ListResults(children, cursor) ==
  SubSeq(children, cursor + 1,
         IF cursor + PageSize < Len(children) THEN cursor + PageSize
         ELSE Len(children))

ListNextCursor(children, cursor) ==
  IF cursor + PageSize < Len(children) THEN cursor + PageSize ELSE NoCursor

\* The listing call resolves: the loop takes the page and the next cursor.
ListOk(r) ==
  /\ pc[r] = "fetch"
  /\ Top(r).loc = "await"
  /\ \E call \in inflight[r] :
       /\ call.block_id \in DOMAIN store
       /\ inflight' = [inflight EXCEPT ![r] = @ \ {call}]
       /\ stack' = SetTop(r,
            [Top(r) EXCEPT
               !.buf = ListResults(store[call.block_id], call.start_cursor),
               !.cursor = ListNextCursor(store[call.block_id], call.start_cursor),
               !.loc = "yield"])
  /\ UNCHANGED <<store, input, pc, calls, blocks, pageContent, result, fault>>

\* The listing call rejects: the store does not know the id, or it cannot
\* be reached.
ListFail(r) ==
  /\ pc[r] = "fetch"
  /\ Top(r).loc = "await"
  /\ \E call \in inflight[r] :
       \E message \in
            {"Request to Notion API has timed out"}
            \cup (IF call.block_id \in DOMAIN store THEN {}
                  ELSE {"Could not find block with ID: " \o call.block_id}) :
         Fail(r, "upstream", message)
  /\ UNCHANGED <<store, input, calls, blocks, pageContent>>

isFullBlock(block) == Has(block, "type")

\* Mutant: the fetcher never recurses.
RecursesNever(h, block) == FALSE

\* Mutant: the fetcher recurses into every block.
RecursesAlways(h, block) == Recursive(h)

\* `if (isFullBlock(block) && block.has_children)` of the recursive fetcher.
Recurses(h, block) ==
  Recursive(h) /\ isFullBlock(block) /\ HasChildrenFlag(block)

\* Mutant: the block is put in front of the collected blocks.
YieldFront(r) ==
  /\ pc[r] = "fetch"
  /\ Top(r).loc = "yield"
  /\ Top(r).buf # <<>>
  /\ ~Recurses(input[r].handler, Head(Top(r).buf))
  /\ stack' = SetTop(r, [Top(r) EXCEPT !.blocks = <<Head(Top(r).buf)>> \o @,
                                       !.buf = Tail(@)])
  /\ UNCHANGED <<store, input, pc, inflight, calls, blocks, pageContent,
                 result, fault>>

\* blocks.push(block) for a block that is not expanded.
Yield(r) ==
  /\ pc[r] = "fetch"
  /\ Top(r).loc = "yield"
  /\ Top(r).buf # <<>>
  /\ ~Recurses(input[r].handler, Head(Top(r).buf))
  /\ stack' = SetTop(r, [Top(r) EXCEPT !.blocks = Append(@, Head(Top(r).buf)),
                                       !.buf = Tail(@)])
  /\ UNCHANGED <<store, input, pc, inflight, calls, blocks, pageContent,
                 result, fault>>

\* blocks.push(block), then the recursive call for the children of block.
Descend(r) ==
  /\ pc[r] = "fetch"
  /\ Top(r).loc = "yield"
  /\ Top(r).buf # <<>>
  /\ Recurses(input[r].handler, Head(Top(r).buf))
  /\ stack' = [stack EXCEPT ![r] =
       Append(SetTop(r, [Top(r) EXCEPT !.blocks = Append(@, Head(Top(r).buf)),
                                       !.buf = Tail(@)])[r],
              NewFrame(Head(Top(r).buf).id))]
  /\ UNCHANGED <<store, input, pc, inflight, calls, blocks, pageContent,
                 result, fault>>

\* Mutant: the loop ends after the first page.
HasMoreNever(cursor) == FALSE

\* `while (nextCursor)` of iteratePaginatedAPI.
HasMore(cursor) == cursor # NoCursor

\* Mutant: the next page is awaited without being requested.
NextPageUnrequested(r) ==
  /\ pc[r] = "fetch"
  /\ Top(r).loc = "yield"
  /\ Top(r).buf = <<>>
  /\ HasMore(Top(r).cursor)
  /\ stack' = SetTop(r, [Top(r) EXCEPT !.loc = "await"])
  /\ UNCHANGED <<store, input, pc, inflight, calls, blocks, pageContent,
                 result, fault>>

\* The page is consumed and there is a next one.
NextPage(r) ==
  /\ pc[r] = "fetch"
  /\ Top(r).loc = "yield"
  /\ Top(r).buf = <<>>
  /\ HasMore(Top(r).cursor)
  /\ stack' = SetTop(r, [Top(r) EXCEPT !.loc = "call"])
  /\ UNCHANGED <<store, input, pc, inflight, calls, blocks, pageContent,
                 result, fault>>

\* Mutant: the child blocks are put in front of the blocks of the parent.
SpliceFront(parentBlocks, childBlocks) == childBlocks \o parentBlocks

\* Mutant: the child blocks replace the blocks of the parent.
SpliceReplace(parentBlocks, childBlocks) == childBlocks

\* Mutant: the child blocks are appended twice.
SpliceTwice(parentBlocks, childBlocks) ==
  parentBlocks \o childBlocks \o childBlocks

\* blocks.push(...childBlocks)
Splice(parentBlocks, childBlocks) == parentBlocks \o childBlocks

\* A recursive call returns its blocks to the call that made it.
ReturnChild(r) ==
  /\ pc[r] = "fetch"
  /\ Len(stack[r]) > 1
  /\ Top(r).loc = "yield"
  /\ Top(r).buf = <<>>
  /\ ~HasMore(Top(r).cursor)
  /\ LET parent == stack[r][Len(stack[r]) - 1] IN
       stack' = [stack EXCEPT ![r] =
         Append(SubSeq(@, 1, Len(@) - 2),
                [parent EXCEPT !.blocks = Splice(@, Top(r).blocks)])]
  /\ UNCHANGED <<store, input, pc, inflight, calls, blocks, pageContent,
                 result, fault>>

\* The outermost call returns its blocks to the handler.
ReturnRoot(r) ==
  /\ pc[r] = "fetch"
  /\ Len(stack[r]) = 1
  /\ Top(r).loc = "yield"
  /\ Top(r).buf = <<>>
  /\ ~HasMore(Top(r).cursor)
  /\ blocks' = [blocks EXCEPT ![r] = Top(r).blocks]
  /\ stack' = [stack EXCEPT ![r] = <<>>]
  /\ pc' = [pc EXCEPT ![r] = "fetched"]
  /\ UNCHANGED <<store, input, inflight, calls, pageContent, result, fault>>

\* ---------------------------------------------------------------- assembly
\* Mutant: the lines are joined with a space.
assembleWithSpaces(blks, legacy) ==
  LET lines == [i \in 1..Len(blks) |-> TextFromBlock(blks[i], legacy)]
      bad == {i \in 1..Len(blks) : ~lines[i].ok}
  IN  IF bad # {}
      THEN Throw(lines[CHOOSE i \in bad : \A j \in bad : i <= j].v)
      ELSE Ok(Join([i \in 1..Len(blks) |-> lines[i].v], " "))

\* blocks.map(getTextFromBlock).join('\n'): map stops at the first block
\* whose rendering throws.
assemble(blks, legacy) ==
  LET lines == [i \in 1..Len(blks) |-> TextFromBlock(blks[i], legacy)]
      bad == {i \in 1..Len(blks) : ~lines[i].ok}
  IN  IF bad # {}
      THEN Throw(lines[CHOOSE i \in bad : \A j \in bad : i <= j].v)
      ELSE Ok(Join([i \in 1..Len(blks) |-> lines[i].v], "\n"))

MinLength == 5

\* Mutant: a document of exactly the minimum length is too short as well.
TooShortInclusive(content) == Len(content) <= MinLength

\* `if (pageContent.length < 5)`
TooShort(content) == Len(content) < MinLength

TooShortMessage(content) ==
  "The extracted content is too short: " \o ToString(Len(content))
  \o " characters. It must be at least 5 characters long."

\* Mutant: the instructions are ignored.
FormatOutputPlain(in, content) == content

\* `if (input.instructions)`: the empty string is falsy.
FormatOutput(in, content) ==
  IF Has(in, "instructions") /\ in.instructions # ""
  THEN "Follow these instructions: " \o in.instructions
       \o "\nContent: " \o content
  ELSE content

\* Mutant: the length check is made on the formatted output.
CheckedOutput(in, content) == FormatOutput(in, content)

\* The text whose length is checked: pageContent, before the output is
\* prepared.
Checked(in, content) == content

\* The handler after retrieveBlockChildren has returned: the document, the
\* length check, then the output or the call of the model.
Complete(r) ==
  /\ pc[r] = "fetched"
  /\ LET h == input[r].handler
         doc == assemble(blocks[r], Legacy(h))
     IN  IF ~doc.ok
         THEN Fail(r, "render", doc.v) /\ UNCHANGED pageContent
         ELSE /\ pageContent' = [pageContent EXCEPT ![r] = <<doc.v>>]
              /\ IF Gated(h) /\ TooShort(Checked(input[r], doc.v))
                 THEN Fail(r, "short", TooShortMessage(doc.v))
                 ELSE IF h = "askNotionPage"
                 THEN /\ pc' = [pc EXCEPT ![r] = "done"]
                      /\ result' = [result EXCEPT ![r] =
                           Returned([notionContent |->
                                       FormatOutput(input[r], doc.v)])]
                      /\ UNCHANGED <<stack, inflight, fault>>
                 ELSE /\ pc' = [pc EXCEPT ![r] = "asking"]
                      /\ UNCHANGED <<stack, inflight, result, fault>>
  /\ UNCHANGED <<store, input, calls, blocks>>

\* ------------------------------------------------------------ answering
Whitespace == {" ", "\n", "\t", "\r"}

RECURSIVE TrimStart(_)
TrimStart(s) ==
  IF s # "" /\ Head(s) \in Whitespace THEN TrimStart(Tail(s)) ELSE s

RECURSIVE TrimEnd(_)
TrimEnd(s) ==
  IF s # "" /\ CharAt(s, Len(s)) \in Whitespace
  THEN TrimEnd(SubSeq(s, 1, Len(s) - 1)) ELSE s

\* String.prototype.trim
Trim(s) == TrimEnd(TrimStart(s))

\* String.prototype.replace with a global pattern of literal text.
RECURSIVE ReplaceAll(_, _, _)
ReplaceAll(s, pattern, by) ==
  IF Len(s) < Len(pattern) THEN s
  ELSE IF SubSeq(s, 1, Len(pattern)) = pattern
       THEN by \o ReplaceAll(SubSeq(s, Len(pattern) + 1, Len(s)), pattern, by)
       ELSE Head(s) \o ReplaceAll(Tail(s), pattern, by)

Disclaimer ==
  "Additionally, there are no disclaimers indicating that the content should "
  \o "not be used in client communication or that it is a work in progress."

Choice(content) == [message |-> [role |-> "assistant", content |-> content]]

\* What the model can answer; content null is a message without content.
Completions ==
  { [id |-> "c0"],
    [id |-> "c1", choices |-> <<>>],
    [id |-> "c2", choices |-> <<[message |-> [role |-> "assistant"]]>>],
    [id |-> "c3", choices |-> <<Choice("  \n")>>],
    [id |-> "c4", choices |-> <<Choice(" 42 \n")>>],
    [id |-> "c5", choices |-> <<Choice(Disclaimer)>>],
    [id |-> "c6", choices |-> <<Choice("42. " \o Disclaimer)>>] }

HasChoices(response) == Has(response, "choices") /\ Len(response.choices) > 0

\* The handlers of the actions folder: an answer or an exception.
AnswerOf(response) ==
  IF ~HasChoices(response) THEN Throw("Model did not respond.")
  ELSE LET message == response.choices[1].message IN
       IF ~Has(message, "content") \/ Len(Trim(message.content)) = 0
       THEN Throw("Model's answer is too short.")
       ELSE Ok(Trim(message.content))

\* index.ts: the text (<<text>>) or null (<<>>), or an exception.
queryOpenAI(response) ==
  IF ~HasChoices(response) THEN Ok(<<>>)
  ELSE LET message == response.choices[1].message IN
       IF ~Has(message, "content")
       THEN Throw("Failed to query OpenAI: "
                  \o "Cannot read properties of null (reading 'trim')")
       ELSE Ok(<<Trim(ReplaceAll(Trim(message.content), Disclaimer, ""))>>)

NoAnswer ==
  "The knowledge base does not provide a definitive answer to your question. "
  \o "Do you want to report missing content to admin?"

\* `if (openAIResponse) ... else ...` of fetchNotionAndAnswerQuestionHandler
KnowledgeAnswer(answer) ==
  IF answer # <<>> /\ answer[1] # "" THEN answer[1] ELSE NoAnswer

Finish(r, output) ==
  /\ pc' = [pc EXCEPT ![r] = "done"]
  /\ result' = [result EXCEPT ![r] = Returned(output)]
  /\ UNCHANGED <<stack, inflight, fault>>

\* The handler after the model has responded with response.
AnswerWith(r, response) ==
  /\ pc[r] = "asking"
  /\ LET h == input[r].handler IN
       IF h = "retrieveKnowledge"
       THEN LET a == queryOpenAI(response) IN
            IF a.ok THEN Finish(r, [answer |-> KnowledgeAnswer(a.v)])
            ELSE Fail(r, "answer", a.v)
       ELSE LET a == AnswerOf(response) IN
            IF ~a.ok THEN Fail(r, "answer", a.v)
            ELSE IF h = "askPrivateNotionPage"
                 THEN Finish(r, [textResponse |-> a.v])
                 ELSE Finish(r, [answer |-> a.v])
  /\ UNCHANGED <<store, input, calls, blocks, pageContent>>

\* The model responds.
Answer(r) == \E response \in Completions : AnswerWith(r, response)

\* The call of the model rejects.
AnswerFail(r) ==
  /\ pc[r] = "asking"
  /\ Fail(r, "answer",
          IF input[r].handler = "retrieveKnowledge"
          THEN "Failed to query OpenAI: Network Error"
          ELSE "Connection error.")
  /\ UNCHANGED <<store, input, calls, blocks, pageContent>>

\* ------------------------------------------------------------ specification
Next ==
  \/ \E r \in Requests : Start(r)
  \/ \E r \in Requests : CallList(r)
  \/ \E r \in Requests : ListOk(r)
  \/ \E r \in Requests : ListFail(r)
  \/ \E r \in Requests : Yield(r)
  \/ \E r \in Requests : Descend(r)
  \/ \E r \in Requests : NextPage(r)
  \/ \E r \in Requests : ReturnChild(r)
  \/ \E r \in Requests : ReturnRoot(r)
  \/ \E r \in Requests : Complete(r)
  \/ \E r \in Requests : Answer(r)
  \/ \E r \in Requests : AnswerFail(r)

Spec == Init /\ [][Next]_vars

\* The scheduler runs every continuation that is ready and every call of
\* the store or of the model is answered or rejected.
FairSpec == Spec /\ WF_vars(Next)

\* Two concurrent requests.
PairSpec == PairInit /\ [][Next]_vars

Done(r) == pc[r] = "done"

\* ------------------------------------------------------------- properties
\* retrieveBlockChildren has returned to the handler of r.
Fetched(r) ==
  \/ pc[r] \in {"fetched", "asking"}
  \/ pc[r] = "done" /\ fault[r] \notin {"url", "upstream"}

\* The id the fetch of r starts from.
RootId(r) ==
  IF input[r].handler = "retrieveKnowledge" THEN EnvPageId
  ELSE extractPageIdFromUrl(input[r].notionPageUrl).v

Expands(block) == isFullBlock(block) /\ HasChildrenFlag(block)

\* Depth-first pre-order of the store below a list of siblings: every
\* sibling, followed at once by the pre-order of its children when it
\* reports children.
RECURSIVE PreOrder(_, _)
PreOrder(st, siblings) ==
  IF Len(siblings) = 0 THEN <<>>
  ELSE <<Head(siblings)>>
       \o (IF Expands(Head(siblings)) THEN PreOrder(st, st[Head(siblings).id])
           ELSE <<>>)
       \o PreOrder(st, Tail(siblings))

Ids(blks) == [i \in 1..Len(blks) |-> blks[i].id]

\* C1: the sequence the recursive fetch returns is the depth-first pre-order
\* of the tree: every block that reports children is followed at once by
\* the whole sequence of its subtree, before its next sibling.
C1_DeepFetchIsPreOrder ==
  \A r \in Requests :
    Recursive(input[r].handler) /\ Fetched(r) =>
      blocks[r] = PreOrder(store, store[RootId(r)])

\* A block with children, its subtree and a following sibling were fetched.
C1_Witness ==
  \E r \in Requests :
    /\ Recursive(input[r].handler) /\ pc[r] = "fetched"
    /\ \E i \in 1..Len(blocks[r]) :
         /\ Expands(blocks[r][i])
         /\ Len(store[blocks[r][i].id]) = 2
         /\ i + 3 <= Len(blocks[r])

\* The tree of the example: the page has the children A (b1) and B (b4),
\* A has the children A1 (b2) and A2 (b3).
ExampleStore == TreeStore(4, <<0, 1, 1, 0>>, <<TRUE, FALSE, FALSE, FALSE>>)

\* C2 as stated: the fetched sequence of the example is [root, A, A1, A2, B].
C2_RootIsFirst ==
  \A r \in Requests :
    store = ExampleStore /\ Recursive(input[r].handler) /\ Fetched(r) =>
      Ids(blocks[r]) = <<PageId, "b1", "b2", "b3", "b4">>

\* C2 amended: the fetched sequence of the example is [A, A1, A2, B]; the
\* root is not an element of it.
C2_ExampleSequence ==
  \A r \in Requests :
    store = ExampleStore /\ Recursive(input[r].handler) /\ Fetched(r) =>
      Ids(blocks[r]) = <<"b1", "b2", "b3", "b4">>

\* The fetch of the example tree has returned.
C2_Witness ==
  \E r \in Requests :
    store = ExampleStore /\ Recursive(input[r].handler) /\ pc[r] = "fetched"

\* C3 as stated: no block of the fetched sequence makes the rendering fail;
\* every block renders to a line and the handler does not end with the
\* failure of a rendering.
C3_RenderingNeverAborts ==
  \A r \in Requests :
    input[r].handler = "askNotionPage" /\ Fetched(r) =>
      /\ \A i \in 1..Len(blocks[r]) : getTextFromBlock(blocks[r][i]).ok
      /\ fault[r] # "render"

\* The lines of a document; the empty document has none.
Lines(doc) == IF doc = "" THEN <<>> ELSE Split(doc, "\n")

Contains(s, c) == \E k \in 1..Len(s) : CharAt(s, k) = c

\* The rendering of every block of blks.
Rendered(blks, legacy) ==
  [i \in 1..Len(blks) |-> TextFromBlock(blks[i], legacy).v]

\* C4 as stated: the lines of the assembled document are the renderings of
\* the blocks, one line per block, whatever the text of the blocks.
C4_LinePerBlock ==
  \A r \in Requests :
    pageContent[r] # <<>> =>
      Lines(pageContent[r][1]) = Rendered(blocks[r], Legacy(input[r].handler))

\* C4 amended: when no rendering contains a newline, the document has one
\* line per block and line i is the rendering of block i.
C4_LinePerBlockWithoutNewline ==
  \A r \in Requests :
    LET lines == Rendered(blocks[r], Legacy(input[r].handler)) IN
    /\ pageContent[r] # <<>>
    /\ \A i \in 1..Len(lines) : ~Contains(lines[i], "\n")
    => /\ Len(Lines(pageContent[r][1])) = Len(blocks[r])
       /\ Lines(pageContent[r][1]) = lines

\* A document of several blocks is assembled.
C4_Witness ==
  \E r \in Requests :
    /\ pageContent[r] # <<>>
    /\ Len(blocks[r]) >= 3
    /\ Len(Lines(pageContent[r][1])) = Len(blocks[r])

\* C5 as stated: when a listing call has failed or the document is below the
\* minimum length, the handler ends by throwing; it returns no output.
C5_FailureIsThrown ==
  \A r \in Requests :
    /\ input[r].handler \in {"askNotionPage", "askMyPrivateNotionPage"}
    /\ Done(r)
    /\ \/ fault[r] = "upstream"
       \/ pageContent[r] # <<>> /\ Len(pageContent[r][1]) < 5
    => result[r].kind = "throw"

\* C6: in the handlers with the length check, the request fails with the
\* too-short error exactly when the document has fewer than 5 characters.
C6_MinimumLengthGate ==
  \A r \in Requests :
    Gated(input[r].handler) /\ pageContent[r] # <<>> =>
      /\ fault[r] = "short" <=> Len(pageContent[r][1]) <= 4
      /\ fault[r] = "short" =>
           result[r] = Thrown("Error occurred: "
                              \o TooShortMessage(pageContent[r][1]))

\* A document of exactly 4 characters has failed the check.
C6_Witness ==
  \E r \in Requests :
    /\ Gated(input[r].handler)
    /\ pageContent[r] # <<>> /\ Len(pageContent[r][1]) = 4
    /\ fault[r] = "short" /\ result[r].kind = "throw"

\* A document of exactly 5 characters has passed the check.
C6_PassWitness ==
  \E r \in Requests :
    /\ input[r].handler = "askNotionPage"
    /\ pageContent[r] # <<>> /\ Len(pageContent[r][1]) = 5
    /\ result[r].kind = "return"

\* a is b with elements left out.
RECURSIVE IsSubseq(_, _)
IsSubseq(a, b) ==
  IF Len(a) = 0 THEN TRUE
  ELSE IF Len(b) = 0 THEN FALSE
  ELSE IF Head(a) = Head(b) THEN IsSubseq(Tail(a), Tail(b))
  ELSE IsSubseq(a, Tail(b))

\* C7: on the same store the sequence of the fetcher that lists the direct
\* children only is a subsequence of the sequence of the recursive fetcher,
\* and the two are equal when no direct child reports children.
C7_ShallowWithinDeep ==
  \A r1, r2 \in Requests :
    /\ Recursive(input[r1].handler) /\ ~Recursive(input[r2].handler)
    /\ Fetched(r1) /\ Fetched(r2)
    => /\ IsSubseq(blocks[r2], blocks[r1])
       /\ (\A i \in 1..Len(blocks[r2]) : ~Expands(blocks[r2][i]))
            => blocks[r1] = blocks[r2]

\* Both fetchers have returned and the recursive one has fetched more.
C7_Witness ==
  \E r1, r2 \in Requests :
    /\ Recursive(input[r1].handler) /\ ~Recursive(input[r2].handler)
    /\ pc[r1] = "fetched" /\ pc[r2] = "fetched"
    /\ Len(blocks[r2]) >= 2
    /\ Len(blocks[r1]) > Len(blocks[r2])

\* C8: the fetch of a finite tree ends: once retrieveBlockChildren is
\* running it eventually has returned or thrown.
C8_FetchTerminates == (pc["r1"] = "fetch") ~> (pc["r1"] # "fetch")

\* A fetch with a second page and a recursive call has returned.
C8_Witness ==
  /\ pc["r1"] = "fetched"
  /\ \E c \in calls["r1"] : c.start_cursor # NoCursor
  /\ \E c \in calls["r1"] : c.block_id # RootId("r1")

\* The blocks of the pending calls of r, outermost first.
RECURSIVE Collected(_)
Collected(frames) ==
  IF Len(frames) = 0 THEN <<>>
  ELSE Head(frames).blocks \o Collected(Tail(frames))

IsPrefix(a, b) == Len(a) <= Len(b) /\ SubSeq(b, 1, Len(a)) = a

\* C9: at every suspension point of the recursive fetch at most one listing
\* call is pending, and the blocks collected so far are a prefix of the
\* pre-order sequence below the id the outermost call was given: no order
\* of completion can reorder them.
C9_CollectedIsPrefixOfPreOrder ==
  \A r \in Requests :
    Recursive(input[r].handler) /\ pc[r] = "fetch"
    /\ stack[r][1].id \in DOMAIN store =>
      /\ Cardinality(inflight[r]) <= 1
      /\ IsPrefix(Collected(stack[r]), PreOrder(store, store[stack[r][1].id]))

\* A listing call is pending inside a recursive call, after blocks of the
\* enclosing call and of the recursive call have been collected.
C9_Witness ==
  \E r \in Requests :
    /\ Recursive(input[r].handler) /\ pc[r] = "fetch"
    /\ Len(stack[r]) = 2
    /\ Len(stack[r][1].blocks) >= 1 /\ Len(stack[r][2].blocks) >= 1
    /\ inflight[r] # {}

EndsWith(s, suffix) ==
  /\ Len(s) >= Len(suffix)
  /\ SubSeq(s, Len(s) - Len(suffix) + 1, Len(s)) = suffix

WithFlag(block, flag) == [block EXCEPT !.has_children = flag]

\* C10: the line of a block that reports children ends in " (Has children)"
\* whatever branch rendered it, and is the line of the same block without
\* children followed by the marker; nothing is appended to the line of a
\* block that reports no children.
C10_HasChildrenMarker ==
  \A r \in Requests :
    LET legacy == Legacy(input[r].handler) IN
    Fetched(r) =>
      /\ \A i \in 1..Len(blocks[r]) :
           LET b == blocks[r][i]
               line == TextFromBlock(b, legacy)
           IN  line.ok /\ isFullBlock(b) =>
                 /\ HasChildrenFlag(b) <=> EndsWith(line.v, " (Has children)")
                 /\ TextFromBlock(WithFlag(b, TRUE), legacy).v
                      = TextFromBlock(WithFlag(b, FALSE), legacy).v
                        \o " (Has children)"
      /\ /\ pageContent[r] # <<>> /\ Len(blocks[r]) > 0
         /\ HasChildrenFlag(blocks[r][Len(blocks[r])])
         => EndsWith(pageContent[r][1], " (Has children)")

\* The document of a page whose last block is a media block with children.
C10_Witness ==
  \E r \in Requests :
    /\ Done(r) /\ fault[r] = "none" /\ result[r].kind = "return"
    /\ pageContent[r] # <<>> /\ Len(blocks[r]) > 0
    /\ LET b == blocks[r][Len(blocks[r])] IN
         /\ HasChildrenFlag(b) /\ TypeOf(b) \in MediaTypes
         /\ EndsWith(pageContent[r][1], " (Has children)")

\* The block has no rich_text under the field its type names.
NoRichText(b) ==
  ~Has(b, TypeOf(b)) \/ ~Has(b[TypeOf(b)], "rich_text")

\* C11: in every handler a block of a type without a case and without rich
\* text renders as "<type>: [Needs case added]" (followed by the marker of
\* children when it has some) and does not fail, also when the block has no
\* payload under the name of its type.
C11_UnknownTypeFallback ==
  \A r \in Requests :
    Fetched(r) =>
      \A i \in 1..Len(blocks[r]) :
        LET b == blocks[r][i] IN
        isFullBlock(b) /\ b.type \notin TableTypes /\ NoRichText(b) =>
          TextFromBlock(b, Legacy(input[r].handler))
            = Ok(b.type \o ": " \o Marker(b, "[Needs case added]"))

\* The texts of the fragments one after the other; a fragment without
\* plain_text adds nothing.
RECURSIVE Concatenation(_)
Concatenation(richText) ==
  IF Len(richText) = 0 THEN ""
  ELSE (IF Has(Head(richText), "plain_text") THEN Head(richText).plain_text
        ELSE "")
       \o Concatenation(Tail(richText))

\* C12: a block that carries rich_text under its type renders the
\* concatenation of the fragments in order, whatever its type, also a type
\* the switch has a case for; the fragments "Hello, " and "world" give the
\* body "Hello, world".
C12_RichTextFirst ==
  \A r \in Requests :
    Fetched(r) =>
      \A i \in 1..Len(blocks[r]) :
        LET b == blocks[r][i] IN
        ~NoRichText(b) =>
          /\ TextFromBlock(b, Legacy(input[r].handler))
               = Ok(TypeOf(b) \o ": "
                    \o Marker(b, Concatenation(b[TypeOf(b)].rich_text)))
          /\ b[TypeOf(b)].rich_text = <<Span("Hello, "), Span("world")>>
               => TextFromBlock(b, Legacy(input[r].handler))
                    = Ok(TypeOf(b) \o ": " \o Marker(b, "Hello, world"))

\* A document was assembled from a bookmark that carries rich text next to
\* its url.
C12_Witness ==
  \E r \in Requests :
    /\ pageContent[r] # <<>>
    /\ \E i \in 1..Len(blocks[r]) :
         /\ TypeOf(blocks[r][i]) = "bookmark" /\ ~NoRichText(blocks[r][i])
         /\ Has(blocks[r][i].bookmark, "url")

\* The payload of a media block has none of the three sources the code
\* accepts: no external, no file, and no url that is a non-empty text.
NoSource(b) ==
  ~Has(b, TypeOf(b))
  \/ (/\ ~Has(b[TypeOf(b)], "external") /\ ~Has(b[TypeOf(b)], "file")
      /\ ~(Has(b[TypeOf(b)], "url") /\ b[TypeOf(b)].url # ""))

\* The caption of the block is a collection with fragments.
HasCaption(b) ==
  /\ Has(b, TypeOf(b)) /\ Has(b[TypeOf(b)], "caption")
  /\ Len(b[TypeOf(b)].caption) > 0

\* C13 as stated: a media block without rich text and without any of the
\* sources renders, and the source of its line is
\* "[Missing case for media block types]: <type>", also when the block has
\* no caption field.
C13_MediaFallback ==
  \A r \in Requests :
    input[r].handler = "askNotionPage" /\ Fetched(r) =>
      \A i \in 1..Len(blocks[r]) :
        LET b == blocks[r][i]
            source == "[Missing case for media block types]: " \o TypeOf(b)
        IN  TypeOf(b) \in MediaTypes /\ NoRichText(b) /\ NoSource(b) =>
              getTextFromBlock(b)
                = Ok(TypeOf(b) \o ": "
                     \o Marker(b, IF HasCaption(b)
                                  THEN Concatenation(b[TypeOf(b)].caption)
                                       \o ": " \o source
                                  ELSE source))

\* The source of a media payload by priority: the external URL, else the
\* URL of the hosted file, else the url field, else the diagnostic.
SourceByPriority(b) ==
  LET p == b[TypeOf(b)] IN
  IF Has(p, "external") THEN StrOf(p.external, "url")
  ELSE IF Has(p, "file") THEN StrOf(p.file, "url")
  ELSE IF ~NoSource(b) THEN p.url
  ELSE "[Missing case for media block types]: " \o TypeOf(b)

\* C14 as stated: in every handler a media block without rich text renders
\* the source chosen by priority, prefixed with "<caption>: " exactly when
\* its caption is present and not empty.
C14_MediaSourcePriority ==
  \A r \in Requests :
    Fetched(r) =>
      \A i \in 1..Len(blocks[r]) :
        LET b == blocks[r][i] IN
        TypeOf(b) \in MediaTypes /\ Has(b, TypeOf(b)) /\ NoRichText(b) =>
          TextFromBlock(b, Legacy(input[r].handler))
            = Ok(TypeOf(b) \o ": "
                 \o Marker(b, IF HasCaption(b)
                              THEN Concatenation(b[TypeOf(b)].caption)
                                   \o ": " \o SourceByPriority(b)
                              ELSE SourceByPriority(b)))

\* The request was given instructions: a text that is not empty.
Instructed(r) == Has(input[r], "instructions") /\ input[r].instructions # ""

\* C15: what askNotionPage returns is the document after
\* "Follow these instructions: <instructions>\nContent: " when instructions
\* were given, and the document alone when none were.
C15_InstructionsPrefix ==
  \A r \in Requests :
    /\ input[r].handler = "askNotionPage"
    /\ Done(r) /\ result[r].kind = "return"
    => /\ pageContent[r] # <<>>
       /\ DOMAIN result[r].output = {"notionContent"}
       /\ result[r].output.notionContent
            = IF Instructed(r)
              THEN "Follow these instructions: " \o input[r].instructions
                   \o "\nContent: " \o pageContent[r][1]
              ELSE pageContent[r][1]

\* A document of two lines was returned after the instructions.
C15_Witness ==
  \E r \in Requests :
    /\ input[r].handler = "askNotionPage" /\ Instructed(r)
    /\ Done(r) /\ result[r].kind = "return"
    /\ Len(blocks[r]) = 2
    /\ Len(result[r].output.notionContent) > Len(pageContent[r][1])

\* The handler of r got past the fetch and the assembly of the document.
Assembled(r) ==
  \/ pc[r] = "asking"
  \/ pc[r] = "done" /\ fault[r] \notin {"url", "upstream"}

\* C16: for the page whose listing returns the paragraphs "A" and "B", both
\* without children, every handler assembles the document
\* "paragraph: A\nparagraph: B"; neither the rendering nor the check of the
\* length fails, and askNotionPage returns that document.
C16_EndToEnd ==
  \A r \in Requests :
    store = ABStore /\ RootId(r) = PageId /\ Assembled(r) =>
      /\ pageContent[r] = <<"paragraph: A\nparagraph: B">>
      /\ fault[r] \notin {"render", "short"}
      /\ input[r].handler = "askNotionPage" =>
           result[r] = Returned([notionContent |-> "paragraph: A\nparagraph: B"])

\* askNotionPage has returned the document of the page of two paragraphs.
C16_Witness ==
  \E r \in Requests :
    /\ store = ABStore /\ input[r].handler = "askNotionPage"
    /\ Done(r) /\ result[r].kind = "return"
    /\ Ids(blocks[r]) = <<"b1", "b2">>

\* The responses of the model that carry no answer: no choices, or a
\* message whose content is null or blank.
NoneResponses ==
  {response \in Completions :
     \/ ~HasChoices(response)
     \/ ~Has(response.choices[1].message, "content")
     \/ Trim(response.choices[1].message.content) = ""}

\* C17 as stated: when the model responds without an answer, the handler
\* that asked it returns an answer to the user, the offer to report the
\* missing content in retrieveKnowledge, and does not fail.
C17_NoAnswerIsOffer ==
  [][\A r \in Requests :
       \A response \in NoneResponses :
         AnswerWith(r, response) =>
           /\ fault'[r] = "none"
           /\ result'[r].kind = "return"
           /\ input[r].handler = "retrieveKnowledge" =>
                result'[r] = Returned([answer |-> NoAnswer])]_vars

\* Everything the handler of request q holds.
Local(q) ==
  <<input[q], pc[q], stack[q], inflight[q], calls[q], blocks[q],
    pageContent[q], result[q], fault[q]>>

\* What retrieveBlockChildren returns to request r when r runs alone: the
\* pre-order of the page for the recursive fetcher, the direct children of
\* the page for the other.
AloneBlocks(r) ==
  IF Recursive(input[r].handler) THEN PreOrder(store, store[RootId(r)])
  ELSE store[RootId(r)]

\* The outcome of r is the one of a run of r alone on the same store: the
\* blocks the fetch returned, the document and the failure of the length
\* check or of the rendering.
AsAlone(r) ==
  Fetched(r) =>
    LET h == input[r].handler
        alone == AloneBlocks(r)
        doc == assemble(alone, Legacy(h))
    IN  /\ blocks[r] = alone
        /\ pageContent[r] # <<>> => pageContent[r][1] = doc.v
        /\ fault[r] = "short" <=>
             Gated(h) /\ pageContent[r] # <<>> /\ TooShort(pageContent[r][1])
        /\ fault[r] = "render" => result[r] = Catch(h, doc.v)

\* C18: with two requests running at once, every step changes what one
\* request holds and nothing of the other nor the store, and the blocks,
\* the document and the failure of each request are those of a run of that
\* request alone on the same store.
C18_RequestsShareNoState ==
  /\ [](\A r \in Requests : AsAlone(r))
  /\ [][/\ store' = store
        /\ \E r \in Requests : \A q \in Requests \ {r} : Local(q)' = Local(q)]_vars

\* Both requests are in the middle of their fetch, each with blocks of its
\* own collected.
C18_Witness ==
  /\ Cardinality(Requests) = 2
  /\ \A r \in Requests :
       /\ pc[r] = "fetch" /\ Len(stack[r][1].blocks) >= 1
       /\ inflight[r] # {}

\* The listing calls that fetch the children of id page by page: the first
\* without cursor, every further one with the cursor the store returned.
Pages(id) ==
  {[block_id |-> id, start_cursor |-> c] :
     c \in {NoCursor} \cup {k \in 1..(Len(store[id]) - 1) : k % PageSize = 0}}

\* The ids whose children the fetch of r lists: the page, and for the
\* recursive fetcher every returned block that is expanded.
Expanded(r) ==
  {RootId(r)}
  \cup (IF Recursive(input[r].handler)
        THEN {blocks[r][i].id : i \in {j \in 1..Len(blocks[r]) :
                                         Expands(blocks[r][j])}}
        ELSE {})

\* C20: every listing call is issued once; while a recursive call is
\* pending, the last block its caller has appended is the block being
\* expanded; and when the fetch has returned, the calls issued are exactly
\* the pages of every expanded id and the blocks are the children in page
\* order, each followed by its subtree.
C20_PagesInOrderOnce ==
  /\ [](\A r \in Requests :
          /\ \A k \in 1..(Len(stack[r]) - 1) :
               /\ Len(stack[r][k].blocks) > 0
               /\ stack[r][k].blocks[Len(stack[r][k].blocks)].id
                    = stack[r][k + 1].id
          /\ Fetched(r) =>
               /\ calls[r] = UNION {Pages(id) : id \in Expanded(r)}
               /\ blocks[r] = AloneBlocks(r))
  /\ [][\A r \in Requests : CallList(r) => calls'[r] # calls[r]]_vars

\* The recursive fetch has returned after listing a second page of the
\* children of a block.
C20_Witness ==
  \E r \in Requests :
    /\ pc[r] = "fetched" /\ Recursive(input[r].handler)
    /\ \E call \in calls[r] :
         /\ call.start_cursor # NoCursor
         /\ \E i \in 1..Len(blocks[r]) : blocks[r][i].id = call.block_id

\* The places of the store, <<id, k>> for the k-th child listed under id.
Places(st) == UNION {{<<id, k>> : k \in 1..Len(st[id])} : id \in DOMAIN st}

\* The places reached from root in one more step than `reached`: the
\* children of root and of every reached block that is a full block with
\* has_children = true.
ReachStep(st, root, reached) ==
  {pl \in Places(st) :
     \/ pl[1] = root
     \/ \E q \in reached : /\ Expands(st[q[1]][q[2]])
                           /\ st[q[1]][q[2]].id = pl[1]}

\* The least set of places closed under ReachStep.
RECURSIVE ReachFrom(_, _, _)
ReachFrom(st, root, reached) ==
  LET next == ReachStep(st, root, reached)
  IN  IF next = reached THEN reached ELSE ReachFrom(st, root, next)

Reachable(st, root) == ReachFrom(st, root, {})

\* C21: when the recursive fetch has returned, the ids of the blocks it
\* returned are pairwise different, they are exactly the blocks reachable
\* from the root through full blocks with has_children = true, and their
\* number is the number of those blocks (the root is not among them).
\* It is stated of the state in which the fetch has returned to the
\* handler; the blocks and the store do not change afterwards.
C21_ReachableExactlyOnce ==
  \A r \in Requests :
    Recursive(input[r].handler) /\ pc[r] = "fetched" =>
      LET root == RootId(r)
          reach == Reachable(store, root)
      IN  /\ \A i, j \in 1..Len(blocks[r]) :
               blocks[r][i].id = blocks[r][j].id => i = j
          /\ {blocks[r][i] : i \in 1..Len(blocks[r])}
               = {store[pl[1]][pl[2]] : pl \in reach}
          /\ Len(blocks[r]) = Cardinality(reach)
          /\ \A i \in 1..Len(blocks[r]) : blocks[r][i].id # root

\* The recursive fetch has returned the children of a block below the page
\* while the store holds a block that is not reachable.
C21_Witness ==
  \E r \in Requests :
    /\ Recursive(input[r].handler) /\ pc[r] = "fetched"
    /\ \E i \in 1..Len(blocks[r]) :
         Expands(blocks[r][i]) /\ Len(store[blocks[r][i].id]) > 0
    /\ \E pl \in Places(store) :
         \A i \in 1..Len(blocks[r]) : blocks[r][i].id # store[pl[1]][pl[2]].id

\* The blocks the fetch of r has pushed so far, and the id it started from.
Seen(r) == IF pc[r] = "fetch" THEN Collected(stack[r]) ELSE blocks[r]

StartId(r) == IF pc[r] = "fetch" THEN stack[r][1].id ELSE RootId(r)

\* C22: every listing call of the recursive fetcher is for the root id or
\* for a block it has received that is a full block with has_children =
\* true; for a received block that is partial or has has_children = false
\* no listing call is issued and none of the children the store holds
\* under it is among the received blocks. It is stated of the states of the
\* fetch and of the state in which it has returned; no call is issued and
\* no block is received afterwards.
C22_ListsOnlyExpandedBlocks ==
  \A r \in Requests :
    Recursive(input[r].handler) /\ pc[r] \in {"fetch", "fetched"} =>
      LET seen == Seen(r)
          root == StartId(r)
      IN  /\ \A call \in calls[r] :
               \/ call.block_id = root
               \/ \E i \in 1..Len(seen) :
                    seen[i].id = call.block_id /\ Expands(seen[i])
          /\ \A i \in 1..Len(seen) :
               ~Expands(seen[i]) =>
                 /\ \A call \in calls[r] : call.block_id # seen[i].id
                 /\ seen[i].id \in DOMAIN store =>
                      \A k \in 1..Len(store[seen[i].id]) :
                        \A j \in 1..Len(seen) :
                          seen[j].id # store[seen[i].id][k].id

\* The recursive fetch has returned a partial block and a full block with
\* has_children = false, the store holds children under both, and it has
\* listed the children of a block with has_children = true.
C22_Witness ==
  \E r \in Requests :
    /\ Recursive(input[r].handler) /\ pc[r] = "fetched"
    /\ \E i \in 1..Len(blocks[r]) :
         ~isFullBlock(blocks[r][i]) /\ Len(store[blocks[r][i].id]) > 0
    /\ \E i \in 1..Len(blocks[r]) :
         /\ isFullBlock(blocks[r][i]) /\ ~HasChildrenFlag(blocks[r][i])
         /\ Len(store[blocks[r][i].id]) > 0
    /\ \E i \in 1..Len(blocks[r]) :
         /\ Expands(blocks[r][i])
         /\ \E call \in calls[r] : call.block_id = blocks[r][i].id

\* C23: in askNotionPage the length check is made on the document before
\* the output is prepared: a request with instructions whose document has
\* fewer than 5 characters fails with the too-short error although the
\* output with the instructions would have 5 characters or more, a request
\* that returns has a document of at least 5 characters, and with the
\* empty string as instructions the output is the document alone.
C23_GateBeforeInstructions ==
  \A r \in Requests :
    /\ input[r].handler = "askNotionPage"
    /\ Has(input[r], "instructions")
    /\ Done(r) /\ pageContent[r] # <<>>
    => LET doc == pageContent[r][1]
           instructions == input[r].instructions
       IN  /\ Len(doc) < MinLength =>
                /\ result[r] = Thrown("Error occurred: " \o TooShortMessage(doc))
                /\ instructions # "" =>
                     Len("Follow these instructions: " \o instructions
                         \o "\nContent: " \o doc) >= MinLength
           /\ result[r].kind = "return" =>
                /\ Len(doc) >= MinLength
                /\ instructions = "" => result[r].output.notionContent = doc

\* A request with the instructions "Be brief" has failed the length check
\* with a document of 4 characters.
C23_Witness ==
  \E r \in Requests :
    /\ input[r].handler = "askNotionPage"
    /\ Has(input[r], "instructions") /\ input[r].instructions = "Be brief"
    /\ pageContent[r] # <<>> /\ Len(pageContent[r][1]) = 4
    /\ Done(r) /\ fault[r] = "short" /\ result[r].kind = "throw"

\* A request with the empty string as instructions has returned a document.
C23_EmptyWitness ==
  \E r \in Requests :
    /\ input[r].handler = "askNotionPage"
    /\ Has(input[r], "instructions") /\ input[r].instructions = ""
    /\ Done(r) /\ result[r].kind = "return"
    /\ result[r].output.notionContent = pageContent[r][1]

\* The URL holds 32 consecutive lowercase hex digits or a dashed
\* 8-4-4-4-12 id.
HoldsId(url) ==
  \E i \in 1..Len(url) : PlainIdAt(url, i) \/ DashedIdAt(url, i)

\* The dashed form of an id of 32 digits.
Dashed(id) ==
  SubSeq(id, 1, 8) \o "-" \o SubSeq(id, 9, 12) \o "-" \o SubSeq(id, 13, 16)
  \o "-" \o SubSeq(id, 17, 20) \o "-" \o SubSeq(id, 21, 32)

\* The handler has called retrieveBlockChildren and no listing call yet.
JustStarted(r) ==
  /\ pc[r] = "fetch" /\ calls[r] = {}
  /\ Len(stack[r]) = 1 /\ stack[r][1].loc = "call"

\* C24: for a handler that takes the page from the URL, the request has
\* failed on the URL exactly when the URL holds neither form of an id, the
\* failure is 'Invalid Notion page URL' and no listing call was issued;
\* otherwise the fetch starts from an id of exactly 32 lowercase hex digits
\* without a dash, and a URL with the dashed form of an id starts from the
\* same id as the URL with its plain form.
C24_PageIdFromUrl ==
  \A r \in Requests :
    input[r].handler # "retrieveKnowledge" =>
      /\ fault[r] = "url" =>
           /\ ~HoldsId(input[r].notionPageUrl)
           /\ result[r] = Catch(input[r].handler, "Invalid Notion page URL")
           /\ calls[r] = {} /\ inflight[r] = {} /\ blocks[r] = <<>>
      /\ JustStarted(r) =>
           LET id == stack[r][1].id
           IN  /\ HoldsId(input[r].notionPageUrl)
               /\ Len(id) = 32
               /\ \A k \in 1..Len(id) : CharAt(id, k) \in HexChars
               /\ \A plain \in {PageId, OtherId} :
                    \A pre \in {"https://www.notion.so/",
                                "https://www.notion.so/My-Page-"} :
                      \A suf \in {"", "?pvs=4"} :
                        input[r].notionPageUrl
                          \in {pre \o plain \o suf, pre \o Dashed(plain) \o suf}
                        => id = plain

\* The fetch of a request with the dashed id in its URL starts from the id
\* without dashes.
C24_Witness ==
  \E r \in Requests :
    /\ input[r].handler # "retrieveKnowledge"
    /\ input[r].notionPageUrl = "https://www.notion.so/" \o Dashed(PageId)
    /\ JustStarted(r) /\ stack[r][1].id = PageId

\* A request with a URL without an id has failed before any listing call.
C24_FailureWitness ==
  \E r \in Requests :
    /\ input[r].handler # "retrieveKnowledge"
    /\ fault[r] = "url" /\ calls[r] = {} /\ Done(r)

====
